---- MODULE Spec2Model ----
(***************************************************************************)
(* Session lifecycle and answer scoring of the PDD trainer bot.            *)
(*                                                                         *)
(* The store is the SessionManager of utils/sessionManager.js (the         *)
(* LRU/TTL version): a JavaScript Map from userId to a session OBJECT.     *)
(* Handlers of bot.js keep a reference to the object that get() returned   *)
(* across their awaits, so objects live in a heap and the Map holds object *)
(* identifiers.                                                            *)
(*                                                                         *)
(* The image cache is the ImageCache of utils/cache.js: a Map from key to  *)
(* {buffer, size, lastAccess} and the running total currentSize.  The      *)
(* eviction loop of its set() is taken one iteration at a time.            *)
(*                                                                         *)
(* The LRUCache and the RateLimiter of utils/cache.js follow: the first a  *)
(* Map in touch order bounded by maxSize, the second a Map from userId to  *)
(* the timestamps of the hits it allowed within the window; the dispatch   *)
(* of bot.js shows which updates pass the limiter before their handler.    *)
(*                                                                         *)
(* The MemoryMonitor (memoryMonitor.js) is checked by its interval timer   *)
(* and calls the handlers bot.js registers; the cluster master re-forks    *)
(* the workers that exit, counting the restarts per process id.            *)
(***************************************************************************)
EXTENDS Integers, Sequences, FiniteSets, TLC

VARIABLES
    sessions,   \* SessionManager.sessions: the Map, as <<userId, object>> pairs in insertion order
    heap,       \* the session objects, by object identifier
    now,        \* Date.now()
    handlers,   \* the processAnswer invocations: position, arguments and the local "session"
    last,       \* the operation that ran last: its arguments, what it saw, its result and
                \* the completion summary it produced
    imageCache, \* the ImageCache object: its Map (entries in insertion order) and currentSize
    imageCall,  \* the ImageCache.set call in progress: its position and arguments
    lastImage,  \* the ImageCache operation that ran last: its arguments, what it saw, its result
    lruCache,   \* the LRUCache object: maxSize and its Map (entries in insertion order)
    lruCall,    \* the LRUCache.set call in progress: its position and arguments
    lastLru,    \* the LRUCache operation that ran last, its result, and the keys set since
                \* construction in the order of their last touch
    requests,   \* the Map of the RateLimiter: userId -> the timestamps it has recorded
    lastRate,   \* the RateLimiter operation that ran last and the status it returned
    allowedHits,\* per user, the times of all the hits that were allowed, and how many
                \* of them came before the user's last reset()
    processed,  \* per user, the times of the requests that reached the session store
    memoryMonitor, \* the MemoryMonitor object: interval, lastStatus, lastAlert
    lastMemory, \* the check() that ran last: what it found, the handler it called, and
                \* the run of consecutive critical checks it belongs to or ended
    cluster,    \* the cluster master: the live worker pids and the workerRestarts Map
    lineages,   \* for each initial worker, the pid that now stands for it and the
                \* times at which a replacement was forked in its line
    lastCluster \* the 'exit' event handled last: the pid, the restarts it counted, its fork

vars == <<sessions, heap, now, handlers, last, imageCache, imageCall, lastImage,
          lruCache, lruCall, lastLru, requests, lastRate, allowedHits, processed,
          memoryMonitor, lastMemory, cluster, lineages, lastCluster>>

\* the session store and its handlers; the caches
sessionVars == <<sessions, heap, handlers, last>>
imageVars == <<imageCache, imageCall, lastImage>>
lruVars == <<lruCache, lruCall, lastLru>>
memoryVars == <<memoryMonitor, lastMemory>>
clusterVars == <<cluster, lineages, lastCluster>>
cacheVars == <<imageVars, lruVars, memoryVars, clusterVars>>
rateVars == <<requests, lastRate, allowedHits, processed>>

\* what the operations of one cache leave alone, the clock apart
imageFrame == <<sessionVars, lruVars, rateVars, memoryVars, clusterVars>>
lruFrame == <<sessionVars, imageVars, rateVars, memoryVars, clusterVars>>
rateFrame == <<sessionVars, cacheVars>>

-----------------------------------------------------------------------------
(* Bounds *)

MaxSessions == 2      \* the maxSessions the store is constructed with
TtlMs == 1            \* the ttlMs the store is constructed with, in clock ticks
MaxHandlers == 2      \* processAnswer invocations in flight at once
MaxQuestions == 2     \* questions of an existing ticket

\* the users that call the store directly: one more than it can hold
Users == 1 .. (MaxSessions + 1)

\* the users that talk to the bot
BotUsers == 1 .. MaxSessions
Handlers == 1 .. MaxHandlers

\* the clock stops one tick after a session set at time 0 has expired
MaxTime == TtlMs + 1

\* the counters and the index of a session object grow without limit (a handler
\* in flight carries those of a finished attempt into the next one): requests
\* are taken while they stay below this
MaxCount == MaxQuestions + MaxHandlers

\* object identifiers: the Map holds at most MaxSessions objects, every handler
\* at most one more, and set() allocates before the replaced one is released
Objects == 1 .. (MaxSessions + MaxHandlers + 1)

-----------------------------------------------------------------------------
(* The question corpus (questionService.js) *)

null == 0

\* tickets 1 and 2 are in the corpus, ticket 3 is not
TicketNumbers == {1, 2, 3}

\* questionId "t_k" is the pair <<t, k>>; <<9, 9>> is an id that is not indexed
UnknownQuestionId == <<9, 9>>

getTicketQuestions(ticketNumber) ==
    IF ticketNumber \in {1, 2}
    THEN [k \in 1 .. MaxQuestions |-> <<ticketNumber, k>>]
    ELSE <<>>

\* (mutant) every ticket number is taken to exist
ticketExists_Any(ticketNumber) == ticketNumber \in Int

ticketExists(ticketNumber) == ticketNumber \in {1, 2}

getTicketQuestionCount(ticketNumber) == Len(getTicketQuestions(ticketNumber))

questionById == {<<t, k>> : t \in {1, 2}, k \in 1 .. MaxQuestions}

QuestionIds == questionById \cup {UnknownQuestionId}

AnswerIndexes == {0, 1}

\* the stored correct option of a question
correctAnswerIndex(questionId) == (questionId[1] + questionId[2]) % 2

\* (mutant) an id that is not indexed is taken for a question
validateAnswer_NoError(questionId, answerIndex) ==
    [isCorrect |-> (answerIndex = correctAnswerIndex(questionId)), error |-> FALSE]

\* validateAnswer: "error" when the id is not indexed, otherwise the comparison
validateAnswer(questionId, answerIndex) ==
    IF questionId \notin questionById
    THEN [isCorrect |-> FALSE, error |-> TRUE]
    ELSE [isCorrect |-> (answerIndex = correctAnswerIndex(questionId)), error |-> FALSE]

-----------------------------------------------------------------------------
(* SessionManager (utils/sessionManager.js, the version with maxSessions) *)

\* position of userId in the Map, 0 when it has no entry
IndexOf(ss, userId) ==
    IF \E i \in 1 .. Len(ss) : ss[i][1] = userId
    THEN CHOOSE i \in 1 .. Len(ss) : ss[i][1] = userId
    ELSE 0

\* Map.delete(key): the other entries keep their order
MapDelete(ss, userId) ==
    SelectSeq(ss, LAMBDA e : e[1] # userId)

MapHas(ss, userId) == IndexOf(ss, userId) # 0

\* Map.keys(): the keys in insertion order
MapKeys(ss) == [i \in 1 .. Len(ss) |-> ss[i][1]]

MapGet(ss, userId) == IF MapHas(ss, userId) THEN ss[IndexOf(ss, userId)][2] ELSE null

\* an identifier that holds no object
Free == [userId |-> 0, currentTicket |-> 0, currentQuestion |-> 0, correctAnswers |-> 0,
         incorrectAnswers |-> 0, lastActivity |-> 0]

\* "new": the object gets an identifier that is not in use
NewObject(hp) == CHOOSE obj \in DOMAIN hp : hp[obj] = Free /\ \A o \in DOMAIN hp : hp[o] = Free => obj <= o

\* the objects a suspended handler refers to and the Map does not hold, in the
\* order of the handlers
RECURSIVE Detached(_, _, _)
Detached(ss, hs, h) ==
    IF h > Len(hs) THEN <<>>
    ELSE LET rest == Detached(ss, hs, h + 1)
             obj == hs[h].session
         IN  IF /\ hs[h].pc # "idle"
                /\ \A i \in 1 .. Len(ss) : ss[i][2] # obj
                /\ \A k \in 1 .. (h - 1) : hs[k].pc = "idle" \/ hs[k].session # obj
             THEN <<obj>> \o rest
             ELSE rest

\* the objects in use: those of the Map in its order, then the detached ones
Live(ss, hs) == [i \in 1 .. Len(ss) |-> ss[i][2]] \o Detached(ss, hs, 1)

\* garbage collection: an object that neither the Map nor a suspended handler
\* refers to is gone.  Identifiers are only names, so the objects in use are
\* renamed 1, 2, ... in the order of Live; the references follow.  The
\* lastActivity of a detached object is never read again (get and cleanup read
\* the objects of the Map, Object.assign overwrites it) and is set to 0.
Rename(live, obj) ==
    IF \E k \in 1 .. Len(live) : live[k] = obj
    THEN CHOOSE k \in 1 .. Len(live) : live[k] = obj
    ELSE null

Collect(ss, hp, hs) ==
    LET live == Live(ss, hs)
    IN  [sessions |-> [i \in 1 .. Len(ss) |-> <<ss[i][1], i>>],
         heap     |-> [obj \in DOMAIN hp |->
                          IF obj <= Len(ss) THEN hp[live[obj]]
                          ELSE IF obj <= Len(live) THEN [hp[live[obj]] EXCEPT !.lastActivity = 0]
                          ELSE Free],
         handlers |-> [h \in DOMAIN hs |->
                          IF hs[h].pc = "idle" THEN hs[h]
                          ELSE [hs[h] EXCEPT !.session = Rename(live, hs[h].session)]]]

Expired(session, t) == t - session.lastActivity > TtlMs

\* (mutant) the loop stops one entry too early: size > maxSessions
RECURSIVE EvictOldest_OffByOne(_)
EvictOldest_OffByOne(ss) ==
    IF Len(ss) > MaxSessions /\ Len(ss) > 0
    THEN EvictOldest_OffByOne(Tail(ss))
    ELSE ss

\* the while loop of set: delete the first key while size >= maxSessions
\* (with maxSessions >= 1 the Map is not empty when the test holds)
RECURSIVE EvictOldest(_)
EvictOldest(ss) ==
    IF Len(ss) >= MaxSessions /\ Len(ss) > 0
    THEN EvictOldest(Tail(ss))
    ELSE ss

\* (mutant) set makes room before it removes the user's own entry
SessionManager_set_EvictFirst(ss, hp, userId, data, t) ==
    LET evicted == EvictOldest(ss)
        removed == IF MapHas(evicted, userId) THEN MapDelete(evicted, userId) ELSE evicted
        session == [userId           |-> userId,
                    currentTicket    |-> data.currentTicket,
                    currentQuestion  |-> data.currentQuestion,
                    correctAnswers   |-> data.correctAnswers,
                    incorrectAnswers |-> data.incorrectAnswers,
                    lastActivity     |-> t]
        obj == NewObject(hp)
    IN  [sessions |-> Append(removed, <<userId, obj>>),
         heap     |-> [hp EXCEPT ![obj] = session],
         ret      |-> obj]

\* set(userId, data): a new object {userId, ...data, lastActivity}
SessionManager_set(ss, hp, userId, data, t) ==
    LET removed == IF MapHas(ss, userId) THEN MapDelete(ss, userId) ELSE ss
        evicted == EvictOldest(removed)
        session == [userId           |-> userId,
                    currentTicket    |-> data.currentTicket,
                    currentQuestion  |-> data.currentQuestion,
                    correctAnswers   |-> data.correctAnswers,
                    incorrectAnswers |-> data.incorrectAnswers,
                    lastActivity     |-> t]
        obj == NewObject(hp)
    IN  [sessions |-> Append(evicted, <<userId, obj>>),
         heap     |-> [hp EXCEPT ![obj] = session],
         ret      |-> obj]

\* (mutant) get moves the entry it returns to the end of the Map, as a
\* least-recently-used cache does
SessionManager_get_MoveToEnd(ss, hp, userId, t) ==
    LET obj == MapGet(ss, userId)
    IN  IF obj = null
        THEN [sessions |-> ss, heap |-> hp, ret |-> null]
        ELSE IF Expired(hp[obj], t)
        THEN [sessions |-> MapDelete(ss, userId), heap |-> hp, ret |-> null]
        ELSE [sessions |-> Append(MapDelete(ss, userId), <<userId, obj>>),
              heap     |-> [hp EXCEPT ![obj].lastActivity = t],
              ret      |-> obj]

\* (mutant) get does not look at the age of the entry
SessionManager_get_IgnoreTtl(ss, hp, userId, t) ==
    LET obj == MapGet(ss, userId)
    IN  IF obj = null
        THEN [sessions |-> ss, heap |-> hp, ret |-> null]
        ELSE [sessions |-> ss,
              heap     |-> [hp EXCEPT ![obj].lastActivity = t],
              ret      |-> obj]

\* (mutant) get returns the live session without refreshing lastActivity
SessionManager_get_NoTouch(ss, hp, userId, t) ==
    LET obj == MapGet(ss, userId)
    IN  IF obj = null
        THEN [sessions |-> ss, heap |-> hp, ret |-> null]
        ELSE IF Expired(hp[obj], t)
        THEN [sessions |-> MapDelete(ss, userId), heap |-> hp, ret |-> null]
        ELSE [sessions |-> ss, heap |-> hp, ret |-> obj]

\* get(userId): null for a missing or an expired entry (which it deletes),
\* otherwise the stored object with lastActivity refreshed
SessionManager_get(ss, hp, userId, t) ==
    LET obj == MapGet(ss, userId)
    IN  IF obj = null
        THEN [sessions |-> ss, heap |-> hp, ret |-> null]
        ELSE IF Expired(hp[obj], t)
        THEN [sessions |-> MapDelete(ss, userId), heap |-> hp, ret |-> null]
        ELSE [sessions |-> ss,
              heap     |-> [hp EXCEPT ![obj].lastActivity = t],
              ret      |-> obj]

\* (mutant) Object.assign replaced by a plain assignment of updates: the
\* fields updates does not name are lost
ObjectAssign_Replace(session, updates, t) ==
    [f \in DOMAIN session |->
        IF f = "lastActivity" THEN t
        ELSE IF f \in DOMAIN updates THEN updates[f]
        ELSE 0]

\* Object.assign(session, updates, {lastActivity}): the fields of updates
\* overwrite those of session
ObjectAssign(session, updates, t) ==
    [f \in DOMAIN session |->
        IF f = "lastActivity" THEN t
        ELSE IF f \in DOMAIN updates THEN updates[f]
        ELSE session[f]]

\* update(userId, updates) where updates is a value
SessionManager_update(ss, hp, userId, updates, t) ==
    LET g == SessionManager_get(ss, hp, userId, t)
    IN  IF g.ret = null
        THEN g
        ELSE [sessions |-> g.sessions,
              heap     |-> [g.heap EXCEPT ![g.ret] = ObjectAssign(g.heap[g.ret], updates, t)],
              ret      |-> g.ret]

\* (mutant) update stores the object it was given when the user has no entry
SessionManager_updateFrom_Upsert(ss, hp, userId, src, t) ==
    LET g == SessionManager_get(ss, hp, userId, t)
    IN  IF g.ret = null
        THEN [sessions |-> Append(g.sessions, <<userId, src>>),
              heap     |-> [g.heap EXCEPT ![src].lastActivity = t],
              ret      |-> src]
        ELSE [sessions |-> g.sessions,
              heap     |-> [g.heap EXCEPT ![g.ret] = ObjectAssign(g.heap[g.ret], g.heap[src], t)],
              ret      |-> g.ret]

\* update(userId, session) where the second argument is the object src:
\* it is read after get() has touched the stored object
SessionManager_updateFrom(ss, hp, userId, src, t) ==
    LET g == SessionManager_get(ss, hp, userId, t)
    IN  IF g.ret = null
        THEN g
        ELSE [sessions |-> g.sessions,
              heap     |-> [g.heap EXCEPT ![g.ret] = ObjectAssign(g.heap[g.ret], g.heap[src], t)],
              ret      |-> g.ret]

\* (mutant) delete removes the oldest entry instead of the user's
SessionManager_delete_First(ss, userId) ==
    [sessions |-> IF Len(ss) > 0 THEN Tail(ss) ELSE ss, ret |-> MapHas(ss, userId)]

\* delete(userId)
SessionManager_delete(ss, userId) ==
    [sessions |-> MapDelete(ss, userId), ret |-> MapHas(ss, userId)]

\* (mutant) cleanup also deletes the entries whose age is exactly the TTL
SessionManager_cleanup_Eager(ss, hp, t) ==
    SelectSeq(ss, LAMBDA e : t - hp[e[2]].lastActivity < TtlMs)

\* (mutant) cleanup spares the entries that are one tick past the TTL
SessionManager_cleanup_Lazy(ss, hp, t) ==
    SelectSeq(ss, LAMBDA e : ~ Expired(hp[e[2]], t - 1))

\* cleanup(): delete every entry older than the TTL
SessionManager_cleanup(ss, hp, t) ==
    SelectSeq(ss, LAMBDA e : ~ Expired(hp[e[2]], t))

\* getStats().activeSessions
SessionManager_getStats(ss) == Len(ss)

-----------------------------------------------------------------------------
(* ImageCache (utils/cache.js) *)

MaxSizeBytes == 100   \* the maxSizeBytes the cache is constructed with

\* the keys: image paths; the empty string is a key that is falsy
ImageKeys == {"", "a", "b"}

\* a Buffer is its length; NotABuffer is a value Buffer.isBuffer rejects
BufferLengths == {20, 50, 60}
Buffers == {[length |-> n] : n \in BufferLengths}
NotABuffer == [length |-> -1]
isBuffer(buffer) == buffer \in Buffers

\* the result of get on a miss
undefined == -1

\* position of key in the Map, 0 when it has no entry
CacheIndexOf(cache, key) ==
    IF \E i \in 1 .. Len(cache) : cache[i].key = key
    THEN CHOOSE i \in 1 .. Len(cache) : cache[i].key = key
    ELSE 0

CacheHas(cache, key) == CacheIndexOf(cache, key) # 0

\* Map.delete of the entry at position i
CacheRemove(cache, i) ==
    [k \in 1 .. (Len(cache) - 1) |-> IF k < i THEN cache[k] ELSE cache[k + 1]]

\* new ImageCache(maxSizeBytes)
EmptyImageCache == [cache |-> <<>>, currentSize |-> 0]

\* get(key): undefined on a miss, otherwise the buffer (its length), with the
\* entry's lastAccess refreshed
ImageCache_get(c, key, t) ==
    LET i == CacheIndexOf(c.cache, key)
    IN  IF i = 0
        THEN [imageCache |-> c, ret |-> undefined]
        ELSE [imageCache |-> [c EXCEPT !.cache[i].lastAccess = t],
              ret        |-> c.cache[i].buffer.length]

\* has(key)
ImageCache_has(c, key) == CacheHas(c.cache, key)

\* (mutant) a buffer of any length is stored
TooLarge_Never(size) == size < 0

\* (mutant) only a buffer longer than the whole budget is refused
TooLarge_WholeBudget(size) == size > MaxSizeBytes

\* size > this.maxSizeBytes / 2
TooLarge(size) == 2 * size > MaxSizeBytes

\* (mutant) set never evicts
NeedsEviction_Never(c, size) == Len(c.cache) < 0

\* the condition of the eviction loop of set
NeedsEviction(c, size) ==
    c.currentSize + size > MaxSizeBytes /\ Len(c.cache) > 0

\* (mutant) the entry inserted first is taken, whatever its lastAccess
OldestIndex_First(cache) ==
    IF Len(cache) = 0 THEN 0 ELSE 1

\* the scan of _evictOldest: the first entry, in Map order, whose lastAccess is
\* the smallest (0 for an empty Map)
OldestIndex(cache) ==
    IF Len(cache) = 0 THEN 0
    ELSE CHOOSE i \in 1 .. Len(cache) :
            /\ \A j \in 1 .. Len(cache) : cache[i].lastAccess <= cache[j].lastAccess
            /\ \A j \in 1 .. (i - 1) : cache[j].lastAccess > cache[i].lastAccess

\* if (oldestKey): null and the empty string do not pass
Truthy(key) == key # ""

\* _evictOldest(): delete the oldest entry and subtract its size
ImageCache_evictOldest(c) ==
    LET i == OldestIndex(c.cache)
    IN  IF i # 0 /\ Truthy(c.cache[i].key)
        THEN [cache       |-> CacheRemove(c.cache, i),
              currentSize |-> c.currentSize - c.cache[i].size]
        ELSE c

\* (mutant) the length of the entry that is replaced stays in currentSize
ImageCache_store_NoSubtract(c, key, buffer, t) ==
    LET i == CacheIndexOf(c.cache, key)
        entry == [key |-> key, buffer |-> buffer, size |-> buffer.length, lastAccess |-> t]
    IN  [cache       |-> IF i # 0 THEN [c.cache EXCEPT ![i] = entry]
                         ELSE Append(c.cache, entry),
         currentSize |-> c.currentSize + buffer.length]

\* the end of set: subtract the length of an existing entry, Map.set (an
\* existing key keeps its position), add the size
ImageCache_store(c, key, buffer, t) ==
    LET i == CacheIndexOf(c.cache, key)
        size == buffer.length
        entry == [key |-> key, buffer |-> buffer, size |-> size, lastAccess |-> t]
        currentSize == IF i # 0 THEN c.currentSize - c.cache[i].buffer.length
                       ELSE c.currentSize
    IN  [cache       |-> IF i # 0 THEN [c.cache EXCEPT ![i] = entry]
                         ELSE Append(c.cache, entry),
         currentSize |-> currentSize + size]

\* clear()
ImageCache_clear(c) == [cache |-> <<>>, currentSize |-> 0]

\* the number of entries in front of the one that is in before and not in
\* after (0 when nothing was removed)
RemovedAt(before, after) ==
    IF Len(after) = Len(before) THEN 0
    ELSE Cardinality({i \in 1 .. Len(after) : \A j \in 1 .. i : after[j] = before[j]})

\* no set is in progress
NoImageCall == [pc |-> "idle", key |-> "", buffer |-> NotABuffer]

\* what an ImageCache operation sees when it starts and what it returns:
\* length is that of the buffer passed to set, empty tells that the cache
\* held nothing, fits that the key was stored and the buffer fits once the
\* stored one is left out, evicted counts the entries the call has removed and
\* passed the entries that stood before a removed one in the Map
ObserveImage(op, key, buffer, ret) ==
    LET i == CacheIndexOf(imageCache.cache, key)
    IN  [op      |-> op,
         key     |-> key,
         length  |-> buffer.length,
         ret     |-> ret,
         empty   |-> Len(imageCache.cache) = 0,
         fits    |-> /\ i # 0
                     /\ imageCache.currentSize - imageCache.cache[i].size + buffer.length
                           <= MaxSizeBytes,
         evicted |-> 0,
         passed  |-> 0]

InitImageCache ==
    /\ imageCache = EmptyImageCache
    /\ imageCall = NoImageCall
    /\ lastImage = [op |-> "init", key |-> "", length |-> -1, ret |-> 0, empty |-> TRUE,
                    fits |-> FALSE, evicted |-> 0, passed |-> 0]

-----------------------------------------------------------------------------
(* LRUCache (utils/cache.js) *)

LruMaxSize == 2       \* the largest maxSize a cache is constructed with

\* the capacities passed to the constructor, which takes any number
LruCapacities == -1 .. LruMaxSize

LruKeys == {"a", "b", "c"}
LruValues == {1, 2}

\* new LRUCache(maxSize)
NewLruCache(maxSize) == [maxSize |-> maxSize, cache |-> <<>>]

\* position of key in the Map, 0 when it has no entry
LruIndexOf(cache, key) ==
    IF \E i \in 1 .. Len(cache) : cache[i].key = key
    THEN CHOOSE i \in 1 .. Len(cache) : cache[i].key = key
    ELSE 0

\* Map.delete(key); deleting a key that is not there (undefined, when the Map
\* is empty) changes nothing
LruDelete(cache, key) == SelectSeq(cache, LAMBDA e : e.key # key)

\* Map.keys(): the keys in insertion order
LruMapKeys(cache) == [i \in 1 .. Len(cache) |-> cache[i].key]

\* (mutant) get without the has() test: a miss sets the key to undefined
LRUCache_get_Unguarded(c, key) ==
    LET i == LruIndexOf(c.cache, key)
        value == IF i = 0 THEN undefined ELSE c.cache[i].value
    IN  [lruCache |-> [c EXCEPT !.cache = Append(LruDelete(c.cache, key),
                                                 [key |-> key, value |-> value])],
         ret      |-> value]

\* (mutant) a hit returns the value and leaves the entry where it is
LRUCache_get_NoPromote(c, key) ==
    LET i == LruIndexOf(c.cache, key)
    IN  IF i = 0
        THEN [lruCache |-> c, ret |-> undefined]
        ELSE [lruCache |-> c, ret |-> c.cache[i].value]

\* get(key): undefined on a miss; a hit deletes the entry and sets it again,
\* which moves it to the end of the Map
LRUCache_get(c, key) ==
    LET i == LruIndexOf(c.cache, key)
    IN  IF i = 0
        THEN [lruCache |-> c, ret |-> undefined]
        ELSE [lruCache |-> [c EXCEPT !.cache = Append(LruDelete(c.cache, key), c.cache[i])],
              ret      |-> c.cache[i].value]

\* has(key)
LRUCache_has(c, key) == LruIndexOf(c.cache, key) # 0

\* the start of set: delete the key if it is there
LRUCache_unset(c, key) == [c EXCEPT !.cache = LruDelete(c.cache, key)]

\* the condition of the eviction loop of set
LruFull(c) == Len(c.cache) >= c.maxSize

\* one iteration: delete keys().next().value, the first key (undefined, and
\* nothing deleted, when the Map is empty)
LRUCache_evict(c) ==
    IF Len(c.cache) = 0 THEN c ELSE [c EXCEPT !.cache = Tail(c.cache)]

\* the end of set: the entry goes to the end of the Map
LRUCache_store(c, key, value) ==
    [c EXCEPT !.cache = Append(c.cache, [key |-> key, value |-> value])]

NoLruCall == [pc |-> "idle", key |-> "", value |-> 0]

\* move key to the end of the touch order
Touch(touched, key) == Append(SelectSeq(touched, LAMBDA k : k # key), key)

\* an operation, its result, the touch order after it and the key a set evicted last
ObserveLru(op, key, ret, touched) ==
    [op |-> op, key |-> key, ret |-> ret, touched |-> touched, evicted |-> ""]

InitLruCache ==
    /\ lruCache = NewLruCache(LruMaxSize)
    /\ lruCall = NoLruCall
    /\ lastLru = ObserveLru("new", "", 0, <<>>)

-----------------------------------------------------------------------------
(* RateLimiter (utils/cache.js, required by bot.js as utils/rateLimiter) *)

RATE_LIMIT_REQUESTS == 2    \* the requests allowed per window
RATE_LIMIT_WINDOW_MS == 2   \* the length of the window, in ticks of the clock

\* new RateLimiter(RATE_LIMIT_REQUESTS, RATE_LIMIT_WINDOW_MS)
maxRequests == RATE_LIMIT_REQUESTS
windowMs == RATE_LIMIT_WINDOW_MS

\* the clock runs until a full window has passed since time 1
RateMaxTime == RATE_LIMIT_WINDOW_MS + 1

\* the allowed hits and the processed requests that are logged per user
MaxHits == 2 * RATE_LIMIT_REQUESTS
MaxProcessed == RATE_LIMIT_REQUESTS + 1

MathMax(a, b) == IF a >= b THEN a ELSE b

\* this.requests.get(userId) || []: a user without a key has the empty list
\* (no operation stores an empty list: hit stores at least the new timestamp,
\* cleanup deletes the key of a list that became empty)
NoRequests == [userId \in BotUsers |-> <<>>]

\* (mutant) the window is one tick shorter
validRequests_Shorter(userRequests, t) ==
    SelectSeq(userRequests, LAMBDA timestamp : t - timestamp < windowMs - 1)

\* userRequests.filter(timestamp => now - timestamp < this.windowMs)
validRequests(userRequests, t) ==
    SelectSeq(userRequests, LAMBDA timestamp : t - timestamp < windowMs)

\* check(userId): the status, without resetIn (which is only formatted into
\* the text of the alert)
RateLimiter_check(rq, userId, t) ==
    LET valid == validRequests(rq[userId], t)
    IN  [allowed   |-> Len(valid) < maxRequests,
         remaining |-> MathMax(0, maxRequests - Len(valid))]

\* hit(userId): check, and when allowed store the valid timestamps and now
RateLimiter_hit(rq, userId, t) ==
    LET status == RateLimiter_check(rq, userId, t)
    IN  IF status.allowed
        THEN LET valid == Append(validRequests(rq[userId], t), t)
             IN  [requests  |-> [rq EXCEPT ![userId] = valid],
                  allowed   |-> TRUE,
                  remaining |-> MathMax(0, maxRequests - Len(valid))]
        ELSE [requests  |-> rq,
              allowed   |-> status.allowed,
              remaining |-> status.remaining]

\* cleanup(): every list keeps its valid timestamps; the key of an empty one
\* is deleted
RateLimiter_cleanup(rq, t) ==
    [userId \in DOMAIN rq |-> validRequests(rq[userId], t)]

\* reset(userId)
RateLimiter_reset(rq, userId) == [rq EXCEPT ![userId] = <<>>]

ObserveRate(op, userId, allowed, remaining) ==
    [op |-> op, userId |-> userId, allowed |-> allowed, remaining |-> remaining]

InitRateLimiter ==
    /\ requests = NoRequests
    /\ lastRate = ObserveRate("init", 0, TRUE, maxRequests)
    /\ allowedHits = [userId \in BotUsers |-> [log |-> <<>>, mark |-> 0]]
    /\ processed = [userId \in BotUsers |-> <<>>]

-----------------------------------------------------------------------------
(* MemoryMonitor (memoryMonitor.js) with the handlers of bot.js *)

MEMORY_WARNING_THRESHOLD == 70    \* warningThreshold, in percent of the heap
MEMORY_CRITICAL_THRESHOLD == 80   \* criticalThreshold

\* the clock of the monitor counts check intervals (checkIntervalMs = 60000 ms);
\* alertCooldownMs = 300000 ms is five of them
CheckIntervalMs == 1
AlertCooldownMs == 5
MemoryMaxTime == AlertCooldownMs + 3

\* stats.usedPercent as getStats() may report it: below both thresholds, on
\* each threshold, between them and above
UsedPercents == {50, 70, 75, 80, 90}

\* Date.now() as the monitor reads it: a positive number, so that a recorded
\* lastAlert is never falsy
DateNow(t) == t + 1

MemoryMonitor_determineStatus(usedPercent) ==
    IF usedPercent >= MEMORY_CRITICAL_THRESHOLD THEN "critical"
    ELSE IF usedPercent >= MEMORY_WARNING_THRESHOLD THEN "warning"
    ELSE "normal"

\* the alert is dropped when the last one is younger than the cooldown
InCooldown(m, t) == m.lastAlert # null /\ (t - m.lastAlert) < AlertCooldownMs

\* _handleStatusChange(newStatus, stats): the monitor after it and the callback
\* it called ("" when none)
MemoryMonitor_handleStatusChange(m, newStatus, t) ==
    IF InCooldown(m, t)
    THEN [memoryMonitor |-> m, called |-> ""]
    ELSE CASE newStatus = "critical" ->
                [memoryMonitor |-> [m EXCEPT !.lastAlert = t], called |-> "onCritical"]
           [] newStatus = "warning" ->
                [memoryMonitor |-> [m EXCEPT !.lastAlert = t], called |-> "onWarning"]
           [] newStatus = "normal" ->
                [memoryMonitor |-> m,
                 called |-> IF m.lastStatus # "normal" THEN "onRecovered" ELSE ""]

\* check() at time t when getStats() reports usedPercent
MemoryMonitor_check(m, usedPercent, t) ==
    LET status == MemoryMonitor_determineStatus(usedPercent)
    IN  IF status # m.lastStatus
        THEN LET r == MemoryMonitor_handleStatusChange(m, status, t)
             IN  [memoryMonitor |-> [r.memoryMonitor EXCEPT !.lastStatus = status],
                  called |-> r.called]
        ELSE [memoryMonitor |-> m, called |-> ""]

\* what a check leaves to be seen: the status it found, the callback it
\* called, and the run of consecutive critical checks ("open" while the checks
\* find critical, "ended" at the first check that finds less) with whether the
\* critical handler has run in it
ObserveMemory(usedPercent, called) ==
    LET status == MemoryMonitor_determineStatus(usedPercent)
    IN  [op          |-> "check",
         usedPercent |-> usedPercent,
         status      |-> status,
         called      |-> called,
         episode     |-> IF status = "critical" THEN "open"
                         ELSE IF lastMemory.episode = "open" THEN "ended" ELSE "none",
         handled     |-> IF status = "critical"
                         THEN \/ called = "onCritical"
                              \/ lastMemory.episode = "open" /\ lastMemory.handled
                         ELSE lastMemory.episode = "open" /\ lastMemory.handled]

InitMemoryMonitor ==
    /\ memoryMonitor = [interval |-> FALSE, lastAlert |-> null, lastStatus |-> "normal"]
    /\ lastMemory = [op |-> "init", usedPercent |-> 0, status |-> "normal", called |-> "",
                     episode |-> "none", handled |-> FALSE]

-----------------------------------------------------------------------------
(* The cluster master (cluster.js) *)

WORKER_COUNT == 2          \* Math.min(numCPUs, MAX_WORKERS)
MAX_RESTARTS == 2          \* 5 in the source
RESTART_WINDOW_MS == 2     \* 60000 in the source
ClusterMaxTime == RESTART_WINDOW_MS + 1

\* the process ids the system hands out; the id of a dead process is free again
Pids == 1 .. WORKER_COUNT + 1
Slots == 1 .. WORKER_COUNT

RECURSIVE Filter(_, _)
\* restarts.filter(t => now - t < RESTART_WINDOW_MS)
Filter(restarts, t) ==
    IF restarts = <<>> THEN <<>>
    ELSE IF t - Head(restarts) < RESTART_WINDOW_MS
         THEN <<Head(restarts)>> \o Filter(Tail(restarts), t)
         ELSE Filter(Tail(restarts), t)

\* the test that refuses the restart, one restart too late
TooManyRestarts_Late(recentRestarts) == Len(recentRestarts) > MAX_RESTARTS

TooManyRestarts(recentRestarts) == Len(recentRestarts) >= MAX_RESTARTS

\* cluster.on('exit') for the worker pid at time t; newPid is the id of the
\* process cluster.fork() starts.  workerRestarts.get(pid) || [] is the
\* function value, <<>> for a pid never set
OnExit(c, pid, newPid, t) ==
    LET recentRestarts == Filter(c.workerRestarts[pid], t)
    IN  IF TooManyRestarts(recentRestarts)
        THEN [c EXCEPT !.workers = @ \ {pid}]
        ELSE [workers        |-> (c.workers \ {pid}) \cup {newPid},
              workerRestarts |-> [c.workerRestarts EXCEPT ![newPid] =
                                     Append(recentRestarts, t)]]

InitCluster ==
    /\ cluster = [workers |-> Slots, workerRestarts |-> [pid \in Pids |-> <<>>]]
    /\ lineages = [slot \in Slots |-> [pid |-> slot, forks |-> <<>>]]
    /\ lastCluster = [op |-> "init", pid |-> 0, recent |-> 0, forked |-> FALSE]

-----------------------------------------------------------------------------
(* State *)

IdleHandler == [pc |-> "idle", userId |-> 0, session |-> null]

\* no completion summary
NoStats == [correct |-> -1, incorrect |-> -1, ticketNumber |-> 0]

\* what the operation about to run sees of userId's entry (its age, -1 when
\* there is none, and the size of the Map), and what it returns; order lists
\* the users the operation leaves in the Map, by their most recent set()
Observe(op, userId, ret, signal) ==
    LET obj == MapGet(sessions, userId)
        isSet == op = "set" \/ (op = "selectTicket" /\ ret = 1)
        kept == SelectSeq(last.order,
                          LAMBDA u : MapHas(sessions', u) /\ ~ (isSet /\ u = userId))
    IN  [op     |-> op,
         userId |-> userId,
         ret    |-> ret,
         signal |-> signal,
         age    |-> IF obj # null THEN now - heap[obj].lastActivity ELSE -1,
         size   |-> Len(sessions),
         stats  |-> NoStats,
         order  |-> IF isSet THEN Append(kept, userId) ELSE kept]

\* the state an operation leaves: the Map, the objects and the handlers
Store(ss, hp, hs) ==
    LET c == Collect(ss, hp, hs)
    IN  /\ sessions' = c.sessions
        /\ heap' = c.heap
        /\ handlers' = c.handlers

Hit(ret) == IF ret # null THEN 1 ELSE 0

InitSessions ==
    /\ sessions = <<>>
    /\ heap = [obj \in Objects |-> Free]
    /\ now = 0
    /\ handlers = [h \in Handlers |-> IdleHandler]
    /\ last = [op |-> "init", userId |-> 0, ret |-> 0, signal |-> "", age |-> -1, size |-> 0,
               stats |-> NoStats, order |-> <<>>]

Init ==
    /\ InitSessions /\ InitImageCache /\ InitLruCache /\ InitRateLimiter
    /\ InitMemoryMonitor /\ InitCluster

\* the clock advances between operations
Tick ==
    /\ now < MaxTime
    /\ now' = now + 1
    /\ UNCHANGED <<sessions, heap, handlers, cacheVars, rateVars>>
    /\ last' = Observe("tick", 0, null, "")

-----------------------------------------------------------------------------
(* The SessionManager interface, called directly *)

\* the data startTicket stores for a new attempt (without startTime, which is
\* only formatted into the text of the summary)
NewSessionData(ticketNumber) ==
    [currentTicket    |-> ticketNumber,
     currentQuestion  |-> 1,
     correctAnswers   |-> 0,
     incorrectAnswers |-> 0]

UpdateValues ==
    {[currentQuestion |-> 2],
     [correctAnswers |-> 1, currentQuestion |-> 2]}

Set(userId, ticketNumber) ==
    /\ LET r == SessionManager_set(sessions, heap, userId,
                                   NewSessionData(ticketNumber), now)
       IN  /\ Store(r.sessions, r.heap, handlers)
           /\ last' = Observe("set", userId, Hit(r.ret), "")
    /\ UNCHANGED <<now, cacheVars, rateVars>>

Get(userId) ==
    /\ LET r == SessionManager_get(sessions, heap, userId, now)
       IN  /\ Store(r.sessions, r.heap, handlers)
           /\ last' = Observe("get", userId, Hit(r.ret), "")
    /\ UNCHANGED <<now, cacheVars, rateVars>>

\* has(userId) is get(userId) !== null
Has(userId) ==
    /\ LET r == SessionManager_get(sessions, heap, userId, now)
       IN  /\ Store(r.sessions, r.heap, handlers)
           /\ last' = Observe("has", userId, Hit(r.ret), "")
    /\ UNCHANGED <<now, cacheVars, rateVars>>

Update(userId, updates) ==
    /\ LET r == SessionManager_update(sessions, heap, userId, updates, now)
       IN  /\ Store(r.sessions, r.heap, handlers)
           /\ last' = Observe("update", userId, Hit(r.ret), "")
    /\ UNCHANGED <<now, cacheVars, rateVars>>

Delete(userId) ==
    /\ LET r == SessionManager_delete(sessions, userId)
       IN  /\ Store(r.sessions, heap, handlers)
           /\ last' = Observe("delete", userId, IF r.ret THEN 1 ELSE 0, "")
    /\ UNCHANGED <<now, cacheVars, rateVars>>

\* the setInterval callback of the constructor
Cleanup ==
    /\ Store(SessionManager_cleanup(sessions, heap, now), heap, handlers)
    /\ last' = Observe("cleanup", 0, 0, "")
    /\ UNCHANGED <<now, cacheVars, rateVars>>

NextSM ==
    \/ Tick
    \/ Cleanup
    \/ \E userId \in Users : Set(userId, 1)
    \/ \E userId \in Users : Get(userId)
    \/ \E userId \in Users : Has(userId)
    \/ \E userId \in Users, updates \in UpdateValues : Update(userId, updates)
    \/ \E userId \in Users : Delete(userId)

SpecSM == Init /\ [][NextSM]_vars

-----------------------------------------------------------------------------
(* The handlers of bot.js *)

\* startTicket: an unknown ticket is reported, otherwise a fresh session is stored.
\* The awaits that follow (confirmation, first question) do not touch the store.
SelectTicket(userId, ticketNumber) ==
    /\ IF ~ ticketExists(ticketNumber)
       THEN /\ UNCHANGED <<sessions, heap, handlers>>
            /\ last' = Observe("selectTicket", userId, 0, "ticket not found")
       ELSE /\ LET r == SessionManager_set(sessions, heap, userId,
                                           NewSessionData(ticketNumber), now)
               IN  /\ Store(r.sessions, r.heap, handlers)
                   /\ last' = Observe("selectTicket", userId, Hit(r.ret), "started")
    /\ UNCHANGED <<now, cacheVars>>

\* /start, and the choose_ticket callback: delete the session, show the menu
Reset(userId) ==
    /\ LET r == SessionManager_delete(sessions, userId)
       IN  /\ Store(r.sessions, heap, handlers)
           /\ last' = Observe("reset", userId, IF r.ret THEN 1 ELSE 0, "")
    /\ UNCHANGED <<now, cacheVars>>

\* (mutant) the two counters are taken for each other
Score_Swapped(hp, obj, isCorrect) ==
    IF isCorrect
    THEN [hp EXCEPT ![obj].incorrectAnswers = @ + 1]
    ELSE [hp EXCEPT ![obj].correctAnswers = @ + 1]

\* (mutant) a wrong answer is not counted
Score_CorrectOnly(hp, obj, isCorrect) ==
    IF isCorrect
    THEN [hp EXCEPT ![obj].correctAnswers = @ + 1]
    ELSE hp

\* session.correctAnswers++ or session.incorrectAnswers++
Score(hp, obj, isCorrect) ==
    IF isCorrect
    THEN [hp EXCEPT ![obj].correctAnswers = @ + 1]
    ELSE [hp EXCEPT ![obj].incorrectAnswers = @ + 1]

\* session.currentQuestion++
Advance(hp, obj) == [hp EXCEPT ![obj].currentQuestion = @ + 1]

\* the largest index any object can reach when the handlers in flight resume
IndexBound ==
    LET Max(S) == CHOOSE x \in S : \A y \in S : y <= x
    IN  Max({heap[obj].currentQuestion : obj \in DOMAIN heap})
          + Cardinality({h \in Handlers : handlers[h].pc = "answerCallbackQuery"})

\* processAnswer up to its first await: get, validate, count
SubmitAnswer(h, userId, questionId, answerIndex) ==
    /\ handlers[h].pc = "idle"
    /\ IndexBound < MaxCount
    /\ LET g == SessionManager_get(sessions, heap, userId, now)
           validation == validateAnswer(questionId, answerIndex)
       IN  IF g.ret = null
           THEN /\ Store(g.sessions, g.heap, handlers)
                /\ last' = Observe("submitAnswer", userId, 0, "session expired")
           ELSE IF validation.error
           THEN /\ Store(g.sessions, g.heap, handlers)
                /\ last' = Observe("submitAnswer", userId, 0, "question not found")
           ELSE /\ g.heap[g.ret].correctAnswers + g.heap[g.ret].incorrectAnswers < MaxCount
                /\ Store(g.sessions,
                         Score(g.heap, g.ret, validation.isCorrect),
                         [handlers EXCEPT ![h] =
                             [pc |-> "answerCallbackQuery", userId |-> userId, session |-> g.ret]])
                /\ last' = Observe("submitAnswer", userId, 1,
                                   IF validation.isCorrect THEN "correct" ELSE "incorrect")
    /\ UNCHANGED <<now, cacheVars>>

\* processAnswer after the callback reply: advance, update, then either compute
\* the summary (and await its send) or send the next question
AnswerReplied(h) ==
    /\ handlers[h].pc = "answerCallbackQuery"
    /\ LET userId == handlers[h].userId
           s == handlers[h].session
           r == SessionManager_updateFrom(sessions, Advance(heap, s), userId, s, now)
           session == r.heap[s]
           totalQuestions == getTicketQuestionCount(session.currentTicket)
       IN  IF session.currentQuestion > totalQuestions
           THEN /\ Store(r.sessions, r.heap, [handlers EXCEPT ![h].pc = "sendMessage"])
                /\ last' = [Observe("answerReplied", userId, Hit(r.ret), "completed")
                               EXCEPT !.stats = [correct      |-> session.correctAnswers,
                                                 incorrect    |-> session.incorrectAnswers,
                                                 ticketNumber |-> session.currentTicket]]
           ELSE /\ Store(r.sessions, r.heap, [handlers EXCEPT ![h] = IdleHandler])
                /\ last' = Observe("answerReplied", userId, Hit(r.ret), "next question")
    /\ UNCHANGED <<now, cacheVars, rateVars>>

\* processAnswer after the summary was sent: delete the session
SummarySent(h) ==
    /\ handlers[h].pc = "sendMessage"
    /\ LET r == SessionManager_delete(sessions, handlers[h].userId)
       IN  /\ Store(r.sessions, heap, [handlers EXCEPT ![h] = IdleHandler])
           /\ last' = Observe("summarySent", handlers[h].userId, IF r.ret THEN 1 ELSE 0, "")
    /\ UNCHANGED <<now, cacheVars, rateVars>>

\* the requests of the users U and the continuations of the handlers
Requests(U) ==
    \/ \E userId \in U, ticketNumber \in TicketNumbers :
          SelectTicket(userId, ticketNumber) /\ UNCHANGED rateVars
    \/ \E userId \in U :
          Reset(userId) /\ UNCHANGED rateVars
    \/ \E h \in Handlers, userId \in U, questionId \in QuestionIds, answerIndex \in AnswerIndexes :
          SubmitAnswer(h, userId, questionId, answerIndex) /\ UNCHANGED rateVars

Resume ==
    \/ \E h \in Handlers : AnswerReplied(h)
    \/ \E h \in Handlers : SummarySent(h)

\* one user, whose requests arrive while earlier ones are suspended at an await
Next ==
    \/ Tick
    \/ Cleanup
    \/ Requests({1})
    \/ Resume

Spec == Init /\ [][Next]_vars

\* every handler runs to its end before the next request is taken
AllIdle == \A h \in Handlers : handlers[h].pc = "idle"

NextSeq ==
    \/ Tick
    \/ Cleanup
    \/ AllIdle /\ Requests(BotUsers)
    \/ Resume

SpecSeq == Init /\ [][NextSeq]_vars

\* the await of the callback reply rejects: processAnswer ends there, and the
\* catch of the callback_query handler reports the error without calling the
\* store
ReplyFailed(h) ==
    /\ handlers[h].pc = "answerCallbackQuery"
    /\ Store(sessions, heap, [handlers EXCEPT ![h] = IdleHandler])
    /\ last' = Observe("replyFailed", handlers[h].userId, 0, "error")
    /\ UNCHANGED <<now, cacheVars, rateVars>>

\* the await that sends the summary rejects: processAnswer ends before its
\* delete
SendFailed(h) ==
    /\ handlers[h].pc = "sendMessage"
    /\ Store(sessions, heap, [handlers EXCEPT ![h] = IdleHandler])
    /\ last' = Observe("sendFailed", handlers[h].userId, 0, "error")
    /\ UNCHANGED <<now, cacheVars, rateVars>>

\* one user; every handler runs to its end before the next request is taken,
\* and a transport call may fail
NextTransport ==
    \/ Tick
    \/ Cleanup
    \/ AllIdle /\ Requests({1})
    \/ Resume
    \/ \E h \in Handlers : ReplyFailed(h)
    \/ \E h \in Handlers : SendFailed(h)

SpecTransport == Init /\ [][NextTransport]_vars

\* several users whose handlers overlap: each bot user selects ticket 1,
\* resets, and has one processAnswer in flight at a time, and one more user
\* selects a ticket, which fills the store
UserRequests ==
    \/ \E userId \in Users :
          SelectTicket(userId, 1) /\ UNCHANGED rateVars
    \/ \E userId \in BotUsers :
          Reset(userId) /\ UNCHANGED rateVars
    \/ \E h \in Handlers, userId \in BotUsers, questionId \in QuestionIds,
            answerIndex \in AnswerIndexes :
          /\ h = userId
          /\ SubmitAnswer(h, userId, questionId, answerIndex)
          /\ UNCHANGED rateVars

NextUsers ==
    \/ Tick
    \/ Cleanup
    \/ UserRequests
    \/ Resume

SpecUsers == Init /\ [][NextUsers]_vars

-----------------------------------------------------------------------------
(* The ImageCache interface *)

\* set(key, buffer) up to its eviction loop: a value that is no Buffer and a
\* buffer longer than half the budget are refused
ImageSet(key, buffer) ==
    /\ imageCall.pc = "idle"
    /\ IF ~ isBuffer(buffer) \/ TooLarge(buffer.length)
       THEN /\ lastImage' = ObserveImage("set", key, buffer, 0)
            /\ UNCHANGED <<imageCache, imageCall>>
       ELSE /\ imageCall' = [pc |-> "evict", key |-> key, buffer |-> buffer]
            /\ lastImage' = ObserveImage("set", key, buffer, -1)
            /\ UNCHANGED imageCache
    /\ UNCHANGED <<now, imageFrame>>

\* one test of the loop condition of set: one more _evictOldest(), or the end
\* of the loop, where the entry is stored and set returns true
ImageSetLoop ==
    /\ imageCall.pc = "evict"
    /\ IF NeedsEviction(imageCache, imageCall.buffer.length)
       THEN /\ imageCache' = ImageCache_evictOldest(imageCache)
            /\ lastImage' = [lastImage EXCEPT
                                !.evicted = @ + Len(imageCache.cache) - Len(imageCache'.cache),
                                !.passed = @ + RemovedAt(imageCache.cache, imageCache'.cache)]
            /\ UNCHANGED imageCall
       ELSE /\ imageCache' = ImageCache_store(imageCache, imageCall.key, imageCall.buffer, now)
            /\ lastImage' = [lastImage EXCEPT !.ret = 1]
            /\ imageCall' = NoImageCall
    /\ UNCHANGED <<now, imageFrame>>

ImageGet(key) ==
    /\ imageCall.pc = "idle"
    /\ LET r == ImageCache_get(imageCache, key, now)
       IN  /\ imageCache' = r.imageCache
           /\ lastImage' = ObserveImage("get", key, NotABuffer, r.ret)
    /\ UNCHANGED <<now, imageFrame, imageCall>>

ImageHas(key) ==
    /\ imageCall.pc = "idle"
    /\ lastImage' = ObserveImage("has", key, NotABuffer,
                                 IF ImageCache_has(imageCache, key) THEN 1 ELSE 0)
    /\ UNCHANGED <<now, imageFrame, imageCache, imageCall>>

ImageClear ==
    /\ imageCall.pc = "idle"
    /\ imageCache' = ImageCache_clear(imageCache)
    /\ lastImage' = ObserveImage("clear", "", NotABuffer, 0)
    /\ UNCHANGED <<now, imageFrame, imageCall>>

\* Date.now() advances between the calls
ImageTick ==
    /\ imageCall.pc = "idle"
    /\ now < MaxTime
    /\ now' = now + 1
    /\ UNCHANGED <<sessionVars, cacheVars, rateVars>>

NextImage ==
    \/ ImageTick
    \/ \E key \in ImageKeys, buffer \in Buffers \cup {NotABuffer} : ImageSet(key, buffer)
    \/ ImageSetLoop
    \/ \E key \in ImageKeys : ImageGet(key)
    \/ \E key \in ImageKeys : ImageHas(key)
    \/ ImageClear

SpecImage == Init /\ [][NextImage]_vars

-----------------------------------------------------------------------------
(* The LRUCache interface *)

\* the constructor keeps whatever maxSize it is given
LruNew(maxSize) ==
    /\ lruCall.pc = "idle"
    /\ lruCache' = NewLruCache(maxSize)
    /\ lastLru' = ObserveLru("new", "", 0, <<>>)
    /\ UNCHANGED <<now, lruFrame, lruCall>>

LruGet(key) ==
    /\ lruCall.pc = "idle"
    /\ LET r == LRUCache_get(lruCache, key)
       IN  /\ lruCache' = r.lruCache
           /\ lastLru' = ObserveLru("get", key, r.ret,
                                    IF r.ret # undefined THEN Touch(lastLru.touched, key)
                                    ELSE lastLru.touched)
    /\ UNCHANGED <<now, lruFrame, lruCall>>

LruHas(key) ==
    /\ lruCall.pc = "idle"
    /\ lastLru' = ObserveLru("has", key, IF LRUCache_has(lruCache, key) THEN 1 ELSE 0,
                             lastLru.touched)
    /\ UNCHANGED <<now, lruFrame, lruCache, lruCall>>

\* set(key, value) up to its eviction loop
LruSet(key, value) ==
    /\ lruCall.pc = "idle"
    /\ lruCache' = LRUCache_unset(lruCache, key)
    /\ lruCall' = [pc |-> "evict", key |-> key, value |-> value]
    /\ lastLru' = ObserveLru("set", key, undefined, Touch(lastLru.touched, key))
    /\ UNCHANGED <<now, lruFrame>>

\* one test of the loop condition of set: one more eviction, or the end of
\* the loop, where the entry is stored and set returns the value
LruSetLoop ==
    /\ lruCall.pc = "evict"
    /\ IF LruFull(lruCache)
       THEN /\ lruCache' = LRUCache_evict(lruCache)
            /\ lastLru' = [lastLru EXCEPT
                              !.evicted = IF Len(lruCache.cache) > 0
                                          THEN lruCache.cache[1].key ELSE @]
            /\ UNCHANGED lruCall
       ELSE /\ lruCache' = LRUCache_store(lruCache, lruCall.key, lruCall.value)
            /\ lastLru' = [lastLru EXCEPT !.ret = lruCall.value]
            /\ lruCall' = NoLruCall
    /\ UNCHANGED <<now, lruFrame>>

NextLru ==
    \/ \E maxSize \in LruCapacities : LruNew(maxSize)
    \/ \E key \in LruKeys : LruGet(key)
    \/ \E key \in LruKeys : LruHas(key)
    \/ \E key \in LruKeys, value \in LruValues : LruSet(key, value)
    \/ LruSetLoop

SpecLru == Init /\ [][NextLru]_vars

-----------------------------------------------------------------------------
(* The RateLimiter interface *)

\* hit(userId) on the limiter; an allowed hit is logged with its time (the
\* log takes MaxHits)
RecordHit(userId) ==
    /\ RateLimiter_check(requests, userId, now).allowed =>
          Len(allowedHits[userId].log) < MaxHits
    /\ LET r == RateLimiter_hit(requests, userId, now)
       IN  /\ requests' = r.requests
           /\ lastRate' = ObserveRate("hit", userId, r.allowed, r.remaining)
           /\ allowedHits' = IF r.allowed
                             THEN [allowedHits EXCEPT ![userId].log = Append(@, now)]
                             ELSE allowedHits

RateHit(userId) ==
    /\ RecordHit(userId)
    /\ UNCHANGED <<now, rateFrame, processed>>

RateCheck(userId) ==
    /\ LET r == RateLimiter_check(requests, userId, now)
       IN  lastRate' = ObserveRate("check", userId, r.allowed, r.remaining)
    /\ UNCHANGED <<now, rateFrame, requests, allowedHits, processed>>

\* the setInterval callback of the constructor
RateCleanup ==
    /\ requests' = RateLimiter_cleanup(requests, now)
    /\ lastRate' = ObserveRate("cleanup", 0, TRUE, 0)
    /\ UNCHANGED <<now, rateFrame, allowedHits, processed>>

RateReset(userId) ==
    /\ requests' = RateLimiter_reset(requests, userId)
    /\ lastRate' = ObserveRate("reset", userId, TRUE, 0)
    /\ allowedHits' = [allowedHits EXCEPT ![userId].mark = Len(allowedHits[userId].log)]
    /\ UNCHANGED <<now, rateFrame, processed>>

\* Date.now() advances between the calls
RateTick ==
    /\ now < RateMaxTime
    /\ now' = now + 1
    /\ UNCHANGED <<rateFrame, rateVars>>

NextRate ==
    \/ RateTick
    \/ RateCleanup
    \/ \E userId \in BotUsers : RateHit(userId)
    \/ \E userId \in BotUsers : RateCheck(userId)
    \/ \E userId \in BotUsers : RateReset(userId)

SpecRate == Init /\ [][NextRate]_vars

-----------------------------------------------------------------------------
(* The dispatch of bot.js: which requests pass the rate limiter *)

\* checkRateLimit(userId, callbackQueryId): rateLimiter.hit(userId); the
\* result is lastRate'.allowed (a denied query is answered with an alert)
checkRateLimit(userId) == RecordHit(userId)

\* a request of userId has called the session store
Processed(userId) ==
    /\ Len(processed[userId]) < MaxProcessed
    /\ processed' = [processed EXCEPT ![userId] = Append(@, now)]

\* bot.on('message'): a ticket number typed on the reply keyboard goes to
\* startTicket, which calls the store when the ticket exists
OnMessage(userId, ticketNumber) ==
    /\ SelectTicket(userId, ticketNumber)
    /\ IF ticketExists(ticketNumber) THEN Processed(userId) ELSE UNCHANGED processed
    /\ UNCHANGED <<requests, lastRate, allowedHits>>

\* bot.onText(/\/start/): delete the session, show the menu
OnStart(userId) ==
    /\ Reset(userId)
    /\ Processed(userId)
    /\ UNCHANGED <<requests, lastRate, allowedHits>>

\* bot.on('callback_query') with data answer_<questionId>_<answerIndex>
OnAnswer(h, userId, questionId, answerIndex) ==
    /\ checkRateLimit(userId)
    /\ IF lastRate'.allowed
       THEN SubmitAnswer(h, userId, questionId, answerIndex) /\ Processed(userId)
       ELSE UNCHANGED <<now, sessionVars, cacheVars, processed>>

\* bot.on('callback_query') with data restart_<ticketNumber> (the reply to the
\* query that precedes startTicket does not touch the store)
OnRestart(userId, ticketNumber) ==
    /\ checkRateLimit(userId)
    /\ IF lastRate'.allowed
       THEN /\ SelectTicket(userId, ticketNumber)
            /\ IF ticketExists(ticketNumber) THEN Processed(userId) ELSE UNCHANGED processed
       ELSE UNCHANGED <<now, sessionVars, cacheVars, processed>>

\* bot.on('callback_query') with data choose_ticket
OnChooseTicket(userId) ==
    /\ checkRateLimit(userId)
    /\ IF lastRate'.allowed
       THEN Reset(userId) /\ Processed(userId)
       ELSE UNCHANGED <<now, sessionVars, cacheVars, processed>>

\* the updates the bot receives from the users U
Updates(U) ==
    \/ \E userId \in U, ticketNumber \in TicketNumbers : OnMessage(userId, ticketNumber)
    \/ \E userId \in U : OnStart(userId)
    \/ \E h \in Handlers, userId \in U, questionId \in QuestionIds, answerIndex \in AnswerIndexes :
          OnAnswer(h, userId, questionId, answerIndex)
    \/ \E userId \in U, ticketNumber \in TicketNumbers : OnRestart(userId, ticketNumber)
    \/ \E userId \in U : OnChooseTicket(userId)

\* one user; every handler runs to its end before the next update is taken
NextDispatch ==
    \/ Tick
    \/ Cleanup
    \/ RateCleanup
    \/ AllIdle /\ Updates({1})
    \/ Resume

SpecDispatch == Init /\ [][NextDispatch]_vars

-----------------------------------------------------------------------------
(* The MemoryMonitor interface *)

\* check() of the monitor m at clock t, with the handlers bot.js registers:
\* the warning handler only logs, the critical handler calls forceGC() and
\* imageService.clearCache(), and no recovered handler is set
Check(m, usedPercent, t) ==
    LET r == MemoryMonitor_check(m, usedPercent, DateNow(t))
    IN  /\ memoryMonitor' = r.memoryMonitor
        /\ lastMemory' = ObserveMemory(usedPercent, r.called)
        /\ IF r.called = "onCritical"
           THEN /\ imageCache' = ImageCache_clear(imageCache)
                /\ lastImage' = ObserveImage("clear", "", NotABuffer, 0)
           ELSE UNCHANGED <<imageCache, lastImage>>
        /\ UNCHANGED <<imageCall, sessionVars, lruVars, rateVars, clusterVars>>

\* start(): sets the timer and runs the initial check; a second start() returns
MemoryStart(usedPercent) ==
    /\ imageCall.pc = "idle"
    /\ ~ memoryMonitor.interval
    /\ Check([memoryMonitor EXCEPT !.interval = TRUE], usedPercent, now)
    /\ UNCHANGED now

\* the timer fires checkIntervalMs after the previous check
MemoryInterval(usedPercent) ==
    /\ imageCall.pc = "idle"
    /\ memoryMonitor.interval
    /\ now + CheckIntervalMs <= MemoryMaxTime
    /\ now' = now + CheckIntervalMs
    /\ Check(memoryMonitor, usedPercent, now')

\* stop()
MemoryStop ==
    /\ memoryMonitor.interval
    /\ memoryMonitor' = [memoryMonitor EXCEPT !.interval = FALSE]
    /\ UNCHANGED <<now, lastMemory, sessionVars, imageVars, lruVars, rateVars, clusterVars>>

\* time passes while the monitor is stopped
MemoryTick ==
    /\ ~ memoryMonitor.interval
    /\ imageCall.pc = "idle"
    /\ now < MemoryMaxTime
    /\ now' = now + 1
    /\ UNCHANGED <<sessionVars, cacheVars, rateVars>>

\* the monitor next to an image cache that is being filled
NextMemory ==
    \/ \E usedPercent \in UsedPercents : MemoryStart(usedPercent)
    \/ \E usedPercent \in UsedPercents : MemoryInterval(usedPercent)
    \/ MemoryStop
    \/ MemoryTick
    \/ ImageSet("a", [length |-> 20])
    \/ ImageSetLoop

SpecMemory == Init /\ [][NextMemory]_vars

-----------------------------------------------------------------------------
(* The cluster master: the 'exit' events of its workers *)

\* the replacements forked in a line at a time t with now - t < RESTART_WINDOW_MS
RecentForks(forks, t) == Len(Filter(forks, t))

\* the worker pid exits; the replacement, if one is forked, gets the id newPid
WorkerExit(pid, newPid) ==
    /\ pid \in cluster.workers
    /\ newPid \notin cluster.workers \ {pid}
    /\ cluster' = OnExit(cluster, pid, newPid, now)
    /\ LET forked == cluster'.workers # cluster.workers \ {pid}
           slot == CHOOSE sl \in Slots : lineages[sl].pid = pid
       IN  /\ lineages' = [lineages EXCEPT ![slot] =
                              IF forked
                              THEN [pid |-> newPid, forks |-> Append(@.forks, now)]
                              ELSE [@ EXCEPT !.pid = 0]]
           /\ lastCluster' = [op     |-> "exit",
                              pid    |-> pid,
                              recent |-> RecentForks(lineages[slot].forks, now),
                              forked |-> forked]
    /\ UNCHANGED <<now, sessionVars, imageVars, lruVars, rateVars, memoryVars>>

\* Date.now() advances between the events
ClusterTick ==
    /\ now < ClusterMaxTime
    /\ now' = now + 1
    /\ UNCHANGED <<sessionVars, cacheVars, rateVars>>

NextCluster ==
    \/ ClusterTick
    \/ \E pid \in Pids, newPid \in Pids : WorkerExit(pid, newPid)

SpecCluster == Init /\ [][NextCluster]_vars

-----------------------------------------------------------------------------
(* Properties *)

\* the session objects the Map holds
Stored == {heap[sessions[i][2]] : i \in 1 .. Len(sessions)}

\* the stored session of userId (when it has one)
SessionOf(userId) == heap[MapGet(sessions, userId)]

Answered(session) == session.correctAnswers + session.incorrectAnswers

\* C1: when every handler runs to its end before the next request starts, the
\* session left in the store after a submitAnswer has
\* correctAnswers + incorrectAnswers = currentQuestion - 1
C1_CountersMatchIndexSequential ==
    AllIdle => \A session \in Stored : Answered(session) = session.currentQuestion - 1

C1_Witness ==
    /\ last.op = "answerReplied"
    /\ last.signal = "next question"
    /\ AllIdle
    /\ \E session \in Stored : session.userId = last.userId /\ session.currentQuestion = 2

\* C2: every completion summary of a ticket with N questions reports
\* correct + incorrect = N, and the user has no stored session once the
\* completing submitAnswer has finished
C2_SummaryCountsTheTicket ==
    /\ last.stats # NoStats =>
          last.stats.correct + last.stats.incorrect
             = getTicketQuestionCount(last.stats.ticketNumber)
    /\ last.op = "summarySent" => ~ MapHas(sessions, last.userId)

\* C3: every stored session has 1 <= currentQuestion <= N + 1, N the number
\* of questions of its ticket
C3_IndexInRange ==
    \A session \in Stored :
        /\ 1 <= session.currentQuestion
        /\ session.currentQuestion <= getTicketQuestionCount(session.currentTicket) + 1

\* C4: in every state, also with handlers suspended at an await, every stored
\* session has correctAnswers + incorrectAnswers = currentQuestion - 1
C4_CountersMatchIndexAlways ==
    \A session \in Stored : Answered(session) = session.currentQuestion - 1

\* C5: once selectTicket has stored a session, it stays as stored (ticket t,
\* question 1, counters 0) until a submission that started after the selection
\* is scored: no step other than the start of a submission or another
\* selection changes a fresh stored session
Fresh(session) ==
    /\ session.currentQuestion = 1
    /\ session.correctAnswers = 0
    /\ session.incorrectAnswers = 0

C5_FreshSessionIsNotMerged ==
    [][\A userId \in BotUsers :
          (/\ MapHas(sessions, userId)
           /\ Fresh(SessionOf(userId))
           /\ MapHas(sessions', userId)
           /\ last'.op \notin {"submitAnswer", "selectTicket"})
          => /\ Fresh(SessionOf(userId)')
             /\ SessionOf(userId)'.currentTicket = SessionOf(userId).currentTicket]_vars

\* C6: a session whose currentQuestion exceeds the length of its ticket is
\* never in the store in a state where another handler can run
C6_NoFinishedSessionStored ==
    \A session \in Stored :
        session.currentQuestion <= getTicketQuestionCount(session.currentTicket)

\* C7: a submitAnswer whose questionId is not the question at the session's
\* currentQuestion position changes neither the counters nor the index (it
\* counts nothing and leaves no handler behind that advances the index)
C7_OnlyTheCurrentQuestionIsScored ==
    [][\A h \in Handlers, userId \in BotUsers, questionId \in QuestionIds, answerIndex \in AnswerIndexes :
          (/\ SubmitAnswer(h, userId, questionId, answerIndex)
           /\ MapHas(sessions, userId)
           /\ questionId # <<SessionOf(userId).currentTicket, SessionOf(userId).currentQuestion>>)
          => /\ handlers' = handlers
             /\ \A session \in Stored' :
                   session.userId = userId =>
                      /\ session.correctAnswers = SessionOf(userId).correctAnswers
                      /\ session.incorrectAnswers = SessionOf(userId).incorrectAnswers
                      /\ session.currentQuestion = SessionOf(userId).currentQuestion]_vars

\* what get(userId) would return at time t: the session (TRUE) or null (FALSE)
GetReturns(ss, hp, userId, t) == SessionManager_get(ss, hp, userId, t).ret # null

\* C8: get(userId) returns null when now - lastActivity > ttlMs and the session
\* when now - lastActivity <= ttlMs, and a cleanup() changes the result of no
\* get, at the time it runs or later
C8_GetFollowsTtlWhateverCleanupDid ==
    /\ [](last.op = "get" /\ last.age >= 0 => (last.ret = 0 <=> last.age > TtlMs))
    /\ [][last'.op = "cleanup" =>
            \A userId \in Users, t \in now .. MaxTime :
                GetReturns(sessions, heap, userId, t) = GetReturns(sessions', heap', userId, t)]_vars

C8_Witness ==
    /\ last.op = "get"
    /\ last.age > TtlMs
    /\ last.ret = 0
    /\ ~ MapHas(sessions, last.userId)

\* C9: a successful get at time t sets lastActivity to t, so a get at any time
\* up to lastActivity + ttlMs returns the session and refreshes it again
C9_GetTouches ==
    last.op = "get" /\ last.age >= 0 /\ last.age <= TtlMs =>
        /\ last.ret = 1
        /\ MapHas(sessions, last.userId)
        /\ SessionOf(last.userId).lastActivity = now

\* a get that succeeds on the last tick of the entry's life, after time TtlMs
C9_Witness ==
    /\ last.op = "get"
    /\ last.ret = 1
    /\ last.age = TtlMs
    /\ now > TtlMs
    /\ SessionOf(last.userId).lastActivity = now

\* C10: the store never holds more than maxSessions entries, and a set for a
\* user without an entry, in a full store, removes exactly one other entry
C10_CapacityBound ==
    /\ Len(sessions) <= MaxSessions
    /\ last.op = "set" /\ last.age = -1 /\ last.size = MaxSessions =>
          /\ Len(sessions) = MaxSessions
          /\ MapHas(sessions, last.userId)

C10_Witness ==
    /\ last.op = "set"
    /\ last.age = -1
    /\ last.size = MaxSessions
    /\ Len(sessions) = MaxSessions

\* C11: the entry a set evicts for capacity is the stored entry whose most
\* recent set is the earliest, and get, has and update leave the eviction
\* order (the order of the most recent sets) as it is
Range(seq) == {seq[i] : i \in 1 .. Len(seq)}

SameProgress(s1, s2) ==
    /\ s1.correctAnswers = s2.correctAnswers
    /\ s1.incorrectAnswers = s2.incorrectAnswers
    /\ s1.currentQuestion = s2.currentQuestion

\* userId has no entry, or one that is older than the TTL
NoLiveSession(userId) ==
    ~ MapHas(sessions, userId) \/ Expired(SessionOf(userId), now)

\* the counters and the index of every session object a handler holds are
\* what they were, and no handler has started or moved on
HandlersAsBefore ==
    \A k \in Handlers :
        /\ handlers'[k].pc = handlers[k].pc
        /\ handlers[k].pc # "idle" =>
              SameProgress(heap[handlers[k].session], heap'[handlers'[k].session])

\* C12: a submitAnswer of a user without a live session (none stored, or one
\* idle for longer than the TTL) is answered with the expired-session signal,
\* leaves that user without a session, starts no handler and changes the
\* counters and the index of no session, stored or held by a handler
C12_NoSessionIsRejected ==
    [][\A userId \in BotUsers :
          (last'.op = "submitAnswer" /\ last'.userId = userId /\ NoLiveSession(userId))
          => /\ last'.signal = "session expired"
             /\ ~ MapHas(sessions', userId)
             /\ \A u \in BotUsers \ {userId} :
                   MapHas(sessions, u) =>
                      MapHas(sessions', u) /\ SameProgress(SessionOf(u), SessionOf(u)')
             /\ HandlersAsBefore]_vars

\* a submission was rejected because the entry had expired, while another
\* user's session is stored
C12_Witness ==
    /\ last.op = "submitAnswer"
    /\ last.signal = "session expired"
    /\ last.age > TtlMs
    /\ \E u \in BotUsers \ {last.userId} : MapHas(sessions, u)

\* C13: a submitAnswer whose questionId is not in the question index is
\* answered with an error (question not found, or session expired when the
\* user has no live session), and correctAnswers, incorrectAnswers and
\* currentQuestion of the user's session stay as they were
C13_UnknownQuestionIsRejected ==
    [][\A userId \in BotUsers, h \in Handlers, answerIndex \in AnswerIndexes :
          (/\ last'.op = "submitAnswer"
           /\ last'.userId = userId
           /\ SubmitAnswer(h, userId, UnknownQuestionId, answerIndex))
          => /\ last'.ret = 0
             /\ last'.signal = IF NoLiveSession(userId)
                               THEN "session expired" ELSE "question not found"
             /\ MapHas(sessions, userId) /\ MapHas(sessions', userId) =>
                   SameProgress(SessionOf(userId), SessionOf(userId)')
             /\ HandlersAsBefore]_vars

\* an unknown question was rejected for a user whose session has progressed
C13_Witness ==
    /\ last.op = "submitAnswer"
    /\ last.signal = "question not found"
    /\ MapHas(sessions, last.userId)
    /\ SessionOf(last.userId).currentQuestion = 2
    /\ Answered(SessionOf(last.userId)) = 1

\* the progress of session increased by the given amounts
Progressed(before, after, correct, incorrect, index) ==
    /\ after.correctAnswers = before.correctAnswers + correct
    /\ after.incorrectAnswers = before.incorrectAnswers + incorrect
    /\ after.currentQuestion = before.currentQuestion + index

\* C14: an accepted submitAnswer adds 1 to exactly one counter of the session
\* it was accepted for, correctAnswers when the chosen index is the question's
\* correctAnswerIndex and incorrectAnswers otherwise, and, when its handler
\* resumes, 1 to currentQuestion and nothing to the counters
C14_OneCounterAndTheIndex ==
    /\ [][\A userId \in BotUsers, h \in Handlers, questionId \in questionById,
               answerIndex \in AnswerIndexes :
             (/\ last'.op = "submitAnswer"
              /\ last'.userId = userId
              /\ last'.ret = 1
              /\ SubmitAnswer(h, userId, questionId, answerIndex))
             => LET isCorrect == answerIndex = correctAnswerIndex(questionId)
                IN  /\ handlers'[h].pc = "answerCallbackQuery"
                    /\ Progressed(SessionOf(userId), heap'[handlers'[h].session],
                                  IF isCorrect THEN 1 ELSE 0, IF isCorrect THEN 0 ELSE 1, 0)]_vars
    /\ [][\A userId \in BotUsers, h \in Handlers :
             (/\ last'.op = "answerReplied"
              /\ last'.userId = userId
              /\ handlers[h].pc = "answerCallbackQuery"
              /\ handlers'[h].pc # "answerCallbackQuery")
             => /\ handlers'[h].pc = "sendMessage" =>
                      Progressed(heap[handlers[h].session], heap'[handlers'[h].session], 0, 0, 1)
                /\ last'.ret = 1 =>
                      Progressed(heap[handlers[h].session], SessionOf(userId)', 0, 0, 1)]_vars

\* a handler has finished for a session with one right and one wrong answer
C14_Witness ==
    /\ last.op = "answerReplied"
    /\ last.ret = 1
    /\ MapHas(sessions, last.userId)
    /\ SessionOf(last.userId).correctAnswers = 1
    /\ SessionOf(last.userId).incorrectAnswers = 1
    /\ SessionOf(last.userId).currentQuestion = 3

\* C15: selectTicket with a ticket number that has no questions creates no
\* session and leaves the store, and with it any session of that user, as it
\* was; every stored session is for a ticket that has questions
C15_UnknownTicketIsRejected ==
    /\ [](\A session \in Stored : getTicketQuestionCount(session.currentTicket) > 0)
    /\ [][\A userId \in BotUsers, ticketNumber \in TicketNumbers :
             (/\ last'.op = "selectTicket"
              /\ last'.userId = userId
              /\ getTicketQuestionCount(ticketNumber) = 0
              /\ SelectTicket(userId, ticketNumber))
             => /\ last'.signal = "ticket not found"
                /\ sessions' = sessions
                /\ heap' = heap
                /\ handlers' = handlers]_vars

\* a ticket without questions was refused to a user whose session has progressed
C15_Witness ==
    /\ last.op = "selectTicket"
    /\ last.signal = "ticket not found"
    /\ MapHas(sessions, last.userId)
    /\ SessionOf(last.userId).currentQuestion = 2

\* the byte lengths of the stored buffers, added up
RECURSIVE SumLengths(_)
SumLengths(cache) ==
    IF Len(cache) = 0 THEN 0
    ELSE Head(cache).buffer.length + SumLengths(Tail(cache))

\* C16: whatever get, set, has and clear calls were made, the byte lengths of
\* the stored buffers add up to at most maxSizeBytes, and no stored buffer is
\* longer than maxSizeBytes / 2
C16_ByteBudget ==
    /\ SumLengths(imageCache.cache) <= MaxSizeBytes
    /\ \A i \in 1 .. Len(imageCache.cache) :
          2 * imageCache.cache[i].buffer.length <= MaxSizeBytes

\* a set has evicted and stored, and the cache is as full as it may get
C16_Witness ==
    /\ lastImage.op = "set"
    /\ lastImage.ret = 1
    /\ lastImage.evicted >= 1
    /\ Len(imageCache.cache) >= 2
    /\ SumLengths(imageCache.cache) = MaxSizeBytes

\* C17: currentSize is the sum of the byte lengths of the stored buffers after
\* every operation (and after every eviction inside set)
C17_CurrentSizeIsTheSum ==
    imageCache.currentSize = SumLengths(imageCache.cache)

\* a set has evicted an entry and then replaced the entry of its key
C17_Witness ==
    /\ lastImage.op = "set"
    /\ lastImage.ret = 1
    /\ lastImage.fits
    /\ lastImage.evicted >= 1
    /\ Len(imageCache.cache) >= 2
    /\ imageCache.currentSize > 0

\* C18: set with a buffer longer than maxSizeBytes / 2 returns false and
\* leaves the keys, the buffers, the lastAccess values and currentSize as they
\* were; nothing is evicted
C18_OversizedIsRefused ==
    [][(/\ lastImage'.op = "set"
        /\ imageCall.pc = "idle"
        /\ 2 * lastImage'.length > MaxSizeBytes)
       => /\ lastImage'.ret = 0
          /\ imageCall'.pc = "idle"
          /\ imageCache' = imageCache]_vars

\* an oversized buffer was refused by a cache that is full
C18_Witness ==
    /\ lastImage.op = "set"
    /\ 2 * lastImage.length > MaxSizeBytes
    /\ lastImage.ret = 0
    /\ SumLengths(imageCache.cache) = MaxSizeBytes

\* C19: a set that replaces a stored key, with
\* currentSize - oldSize + newSize <= maxSizeBytes, evicts no entry
C19_ReplacementEvictsNothing ==
    (/\ lastImage.op = "set"
     /\ lastImage.fits
     /\ lastImage.length >= 0
     /\ 2 * lastImage.length <= MaxSizeBytes)
    => lastImage.evicted = 0

\* C20 as claimed: in a fresh cache set("a", 60 bytes) returns true and stores
\* "a"; set("b", 60 bytes) returns true, stores "b" and not "a", within the budget
C20_ScenarioAsClaimed ==
    (/\ lastImage.op = "set"
     /\ lastImage.key \in {"a", "b"}
     /\ lastImage.length = 60
     /\ lastImage.empty
     /\ imageCall.pc = "idle")
    => /\ lastImage.ret = 1
       /\ CacheHas(imageCache.cache, lastImage.key)
       /\ lastImage.key = "b" => ~ CacheHas(imageCache.cache, "a")
       /\ SumLengths(imageCache.cache) <= MaxSizeBytes

\* C20: in a cache that holds nothing (a fresh one), set("a", 60 bytes) returns
\* false and stores nothing, so that set("b", 60 bytes) meets the same cache
\* and returns false too: neither key is stored and the total is 0
C20_ScenarioAsCoded ==
    (/\ lastImage.op = "set"
     /\ lastImage.key \in {"a", "b"}
     /\ lastImage.length = 60
     /\ lastImage.empty)
    => /\ lastImage.ret = 0
       /\ imageCall.pc = "idle"
       /\ ~ CacheHas(imageCache.cache, "a")
       /\ ~ CacheHas(imageCache.cache, "b")
       /\ imageCache.currentSize = 0
       /\ SumLengths(imageCache.cache) = 0

\* set("b", 60 bytes) was refused by a cache that holds nothing
C20_Witness ==
    /\ lastImage.op = "set"
    /\ lastImage.key = "b"
    /\ lastImage.length = 60
    /\ lastImage.empty
    /\ lastImage.ret = 0
    /\ Len(imageCache.cache) = 0

\* position of key in the touch order, 0 when it was never set
TouchRank(touched, key) ==
    IF \E i \in 1 .. Len(touched) : touched[i] = key
    THEN CHOOSE i \in 1 .. Len(touched) : touched[i] = key
    ELSE 0

\* C21: for a cache of capacity C >= 1, after every get and set the retained
\* keys are the min(C, number of distinct keys set so far) most recently
\* touched keys, least recently touched first; the size never exceeds C; and
\* a key evicted on overflow is the least recently touched of the retained keys
C21_RetainsTheMostRecentlyTouched ==
    /\ [](lruCache.maxSize >= 1 => Len(lruCache.cache) <= lruCache.maxSize)
    /\ [](lruCache.maxSize >= 1 /\ lruCall.pc = "idle" =>
            LET touched == lastLru.touched
                n == IF lruCache.maxSize <= Len(touched)
                     THEN lruCache.maxSize ELSE Len(touched)
            IN  LruMapKeys(lruCache.cache)
                   = SubSeq(touched, Len(touched) - n + 1, Len(touched)))
    /\ [][(/\ lruCache.maxSize >= 1
           /\ lruCall.pc = "evict"
           /\ Len(lruCache'.cache) < Len(lruCache.cache))
          => /\ Len(lruCache'.cache) = Len(lruCache.cache) - 1
             /\ \E i \in 1 .. Len(lruCache.cache) :
                   /\ lruCache.cache[i].key = lastLru'.evicted
                   /\ LruIndexOf(lruCache'.cache, lastLru'.evicted) = 0
                   /\ \A j \in 1 .. Len(lruCache.cache) :
                         j # i => TouchRank(lastLru.touched, lruCache.cache[i].key)
                                     < TouchRank(lastLru.touched, lruCache.cache[j].key)]_vars

\* a set into a full cache has evicted a key and returned; the key that was
\* set first was read since and is still retained
C21_Witness ==
    /\ lastLru.op = "set"
    /\ lastLru.ret # undefined
    /\ lastLru.evicted = "b"
    /\ lruCache.maxSize = LruMaxSize
    /\ Len(lruCache.cache) = LruMaxSize
    /\ Len(lastLru.touched) = LruMaxSize + 1
    /\ lastLru.touched[1] = "b"
    /\ LruIndexOf(lruCache.cache, "a") # 0

\* C27: has(key), and a get(key) that misses, leave the cache as it is: the
\* keys, their values and their order
C27_HasAndMissChangeNothing ==
    [][(lastLru'.op = "has" \/ (lastLru'.op = "get" /\ lastLru'.ret = undefined))
       => /\ lruCache' = lruCache
          /\ lruCall' = lruCall
          /\ lastLru'.touched = lastLru.touched]_vars

\* a get has missed in a cache that is full
C27_Witness ==
    /\ lastLru.op = "get"
    /\ lastLru.ret = undefined
    /\ lruCache.maxSize = LruMaxSize
    /\ Len(lruCache.cache) = LruMaxSize
    /\ LruIndexOf(lruCache.cache, lastLru.key) = 0

\* C28: no LRUCache with a capacity of zero or less exists: the constructor
\* fails for it
C28_InvalidCapacityIsRefused ==
    lruCache.maxSize >= 1

\* C22: a set evicts no entry that is within the TTL while another entry of
\* the store is older than the TTL
C22_ExpiredEntriesGoFirst ==
    [][last'.op = "set" =>
          \A userId \in Users :
             (/\ userId # last'.userId
              /\ MapHas(sessions, userId)
              /\ ~ MapHas(sessions', userId)
              /\ ~ Expired(SessionOf(userId), now))
             => ~ \E other \in Users :
                     /\ other # last'.userId
                     /\ MapHas(sessions, other)
                     /\ Expired(SessionOf(other), now)]_vars

\* C23: getStats().activeSessions is the number of users for whom get would
\* return a session now
C23_ActiveSessionsCountsLiveOnes ==
    SessionManager_getStats(sessions)
        = Cardinality({userId \in Users : GetReturns(sessions, heap, userId, now)})

\* C24: update on a live session overwrites exactly the given fields, sets
\* lastActivity to now and returns the session; on a missing or expired
\* session it returns null and leaves no entry for the user; in both cases
\* the entries of the other users are as before
C24_UpdateMergesOrReturnsNull ==
    [][\A userId \in Users, updates \in UpdateValues :
          last'.op = "update" /\ Update(userId, updates) =>
             /\ IF GetReturns(sessions, heap, userId, now)
                THEN /\ last'.ret = 1
                     /\ MapKeys(sessions') = MapKeys(sessions)
                     /\ \A f \in DOMAIN SessionOf(userId) :
                           SessionOf(userId)'[f] =
                              IF f = "lastActivity" THEN now
                              ELSE IF f \in DOMAIN updates THEN updates[f]
                              ELSE SessionOf(userId)[f]
                ELSE /\ last'.ret = 0
                     /\ ~ MapHas(sessions', userId)
                     /\ MapKeys(sessions') = MapKeys(MapDelete(sessions, userId))
             /\ \A other \in Users \ {userId} :
                   /\ MapHas(sessions', other) = MapHas(sessions, other)
                   /\ MapHas(sessions, other) => SessionOf(other)' = SessionOf(other)]_vars

\* an update one tick after the set: the fields given are written, the
\* ticket is kept, and another user's older entry is still there
C24_Witness ==
    /\ last.op = "update"
    /\ last.ret = 1
    /\ last.age = 1
    /\ Len(sessions) = 2
    /\ SessionOf(last.userId).currentTicket = 1
    /\ SessionOf(last.userId).currentQuestion = 2
    /\ SessionOf(last.userId).correctAnswers = 1
    /\ SessionOf(last.userId).lastActivity = now
    /\ \E other \in Users : MapHas(sessions, other) /\ SessionOf(other).lastActivity < now

\* C25: cleanup() at time now leaves exactly the entries with
\* now - lastActivity <= ttlMs, in their order and unmodified
C25_CleanupRemovesExactlyTheExpired ==
    [][last'.op = "cleanup" =>
          /\ MapKeys(sessions') =
                MapKeys(SelectSeq(sessions,
                                  LAMBDA e : now - heap[e[2]].lastActivity <= TtlMs))
          /\ \A userId \in Users :
                MapHas(sessions', userId) => SessionOf(userId)' = SessionOf(userId)]_vars

\* a cleanup that found two entries, removed the one past the TTL and kept
\* the one whose age is exactly the TTL
C25_Witness ==
    /\ last.op = "cleanup"
    /\ last.size = 2
    /\ Len(sessions) = 1
    /\ now - heap[sessions[1][2]].lastActivity = TtlMs

\* C26: an entry that set removes while it makes room has the smallest
\* lastAccess of the entries stored at that moment, and every entry in front
\* of it in the Map has a larger one; a get that hits sets the lastAccess of
\* that entry to now and changes nothing else
C26_EvictsTheLeastRecentlyAccessed ==
    [][/\ (imageCall.pc = "evict" /\ Len(imageCache'.cache) < Len(imageCache.cache)) =>
             \E i \in 1 .. Len(imageCache.cache) :
                /\ imageCache'.cache = CacheRemove(imageCache.cache, i)
                /\ \A j \in 1 .. Len(imageCache.cache) :
                      imageCache.cache[i].lastAccess <= imageCache.cache[j].lastAccess
                /\ \A j \in 1 .. (i - 1) :
                      imageCache.cache[j].lastAccess > imageCache.cache[i].lastAccess
       /\ \A key \in ImageKeys :
             (ImageGet(key) /\ CacheHas(imageCache.cache, key)) =>
                /\ lastImage'.ret # undefined
                /\ imageCache'.currentSize = imageCache.currentSize
                /\ Len(imageCache'.cache) = Len(imageCache.cache)
                /\ \A i \in 1 .. Len(imageCache.cache) :
                      imageCache'.cache[i] =
                         IF imageCache.cache[i].key = key
                         THEN [imageCache.cache[i] EXCEPT !.lastAccess = now]
                         ELSE imageCache.cache[i]]_vars

\* a set has removed one entry that was not the first of the Map: the first
\* one, inserted earlier, had been read since and is still stored
C26_Witness ==
    /\ lastImage.op = "set"
    /\ lastImage.ret = 1
    /\ lastImage.evicted = 1
    /\ lastImage.passed = 1
    /\ Len(imageCache.cache) = 2
    /\ imageCache.cache[1].lastAccess > 0
    /\ imageCache.cache[1].lastAccess < now

\* the number of the times of log that lie in the window (t - windowMs, t]
InWindow(log, t) ==
    Cardinality({i \in 1 .. Len(log) : t - windowMs < log[i] /\ log[i] <= t})

\* the allowed hits of userId since its last reset()
SinceReset(userId) ==
    SubSeq(allowedHits[userId].log, allowedHits[userId].mark + 1,
           Len(allowedHits[userId].log))

\* C29 (as stated): for every user and every time t at most maxRequests
\* allowed hits have their time in (t - windowMs, t], and a denied hit is not
\* recorded
C29_AtMostMaxRequestsPerWindow ==
    /\ [](\A userId \in BotUsers, t \in 0 .. RateMaxTime :
             InWindow(allowedHits[userId].log, t) <= maxRequests)
    /\ [][\A userId \in BotUsers :
             (RateHit(userId) /\ ~ lastRate'.allowed) =>
                requests' = requests /\ allowedHits' = allowedHits]_vars

\* C29 (amended): the bound holds for the allowed hits a user has made since
\* its last reset(userId), which forgets the hits recorded before it; a denied
\* hit is not recorded
C29_AtMostMaxRequestsPerWindowSinceReset ==
    /\ [](\A userId \in BotUsers, t \in 0 .. RateMaxTime :
             InWindow(SinceReset(userId), t) <= maxRequests)
    /\ [][\A userId \in BotUsers :
             (RateHit(userId) /\ ~ lastRate'.allowed) =>
                requests' = requests /\ allowedHits' = allowedHits]_vars

\* a hit is denied: the window holds maxRequests allowed hits, an earlier hit
\* has left the window, and one was forgotten by a reset
C29_Witness ==
    /\ lastRate.op = "hit"
    /\ ~ lastRate.allowed
    /\ InWindow(SinceReset(lastRate.userId), now) = maxRequests
    /\ allowedHits[lastRate.userId].mark > 0
    /\ \E i \in 1 .. Len(SinceReset(lastRate.userId)) :
          SinceReset(lastRate.userId)[i] <= now - windowMs

\* C30: for every user, at most RATE_LIMIT_REQUESTS of the requests that
\* reached the session store have their time in any window of
\* RATE_LIMIT_WINDOW_MS
C30_ProcessedRequestsAreRateLimited ==
    \A userId \in BotUsers, t \in 0 .. MaxTime :
       InWindow(processed[userId], t) <= RATE_LIMIT_REQUESTS

\* C36: a set for a user who has an entry removes no other user's entry,
\* also when the store is full: the keys after it are the other keys in
\* their order, then the user
C36_ReplacingEvictsNobody ==
    [][\A userId \in Users :
          (last'.op = "set" /\ last'.userId = userId /\ MapHas(sessions, userId)) =>
             /\ MapKeys(sessions') = Append(MapKeys(MapDelete(sessions, userId)), userId)
             /\ \A other \in Users \ {userId} :
                   MapHas(sessions, other) => SessionOf(other)' = SessionOf(other)]_vars

\* a set in a full store for the user who held the older entry: the other
\* entry, written before, is still stored and now comes first
C36_Witness ==
    /\ last.op = "set"
    /\ last.age >= 0
    /\ last.size = MaxSessions
    /\ Len(sessions) = MaxSessions
    /\ sessions[Len(sessions)][1] = last.userId
    /\ now > 0
    /\ \A i \in 1 .. (Len(sessions) - 1) : heap[sessions[i][2]].lastActivity < now

\* the steps of the handlers of userId: startTicket, /start and choose_ticket,
\* processAnswer and its continuations
HandlerStepOf(userId) ==
    /\ last'.userId = userId
    /\ last'.op \in {"selectTicket", "reset", "submitAnswer", "answerReplied", "summarySent"}

\* C37: a step of a handler of userId leaves every other user's stored
\* session as it is, stores no entry for another user, and removes another
\* user's entry only in a set that finds the store full
C37_OnlyTheUsersOwnEntry ==
    [][\A userId \in Users, other \in Users :
          (other # userId /\ HandlerStepOf(userId)) =>
             /\ (MapHas(sessions, other) /\ MapHas(sessions', other)) =>
                   SessionOf(other)' = SessionOf(other)
             /\ ~ MapHas(sessions, other) => ~ MapHas(sessions', other)
             /\ (MapHas(sessions, other) /\ ~ MapHas(sessions', other)) =>
                   /\ last'.op = "selectTicket"
                   /\ last'.ret = 1
                   /\ Len(MapDelete(sessions, userId)) >= MaxSessions]_vars

\* the continuation of an answer of one user has run while a processAnswer of
\* another user is suspended, and that user's session is stored with its
\* count
C37_Witness ==
    /\ last.op = "answerReplied"
    /\ \E h \in Handlers :
          /\ handlers[h].pc = "answerCallbackQuery"
          /\ handlers[h].userId # last.userId
          /\ MapHas(sessions, handlers[h].userId)
          /\ Answered(SessionOf(handlers[h].userId)) = 1
    /\ MapHas(sessions, last.userId)

\* C32: an attempt (the session object one selectTicket stored) gets at most
\* one completion summary: when a processAnswer produces the summary, no
\* other processAnswer has produced one for the same session object and is
\* sending it
C32_OneSummaryPerAttempt ==
    [][\A h \in Handlers :
          (/\ last'.op = "answerReplied"
           /\ last'.signal = "completed"
           /\ handlers[h].pc = "answerCallbackQuery"
           /\ handlers'[h].pc = "sendMessage") =>
             ~ \E k \in Handlers \ {h} :
                  /\ handlers[k].pc = "sendMessage"
                  /\ handlers[k].session = handlers[h].session]_vars

\* C33: the delete at the end of a completed ticket removes the session that
\* completed only: a session the user has started while the summary was
\* being sent (another object, at question 1) is still stored afterwards
C33_CompletionKeepsTheNewSession ==
    [][\A h \in Handlers, userId \in BotUsers :
          (/\ last'.op = "summarySent"
           /\ last'.userId = userId
           /\ handlers[h].pc = "sendMessage"
           /\ handlers[h].userId = userId
           /\ handlers'[h].pc = "idle"
           /\ MapHas(sessions, userId)
           /\ MapGet(sessions, userId) # handlers[h].session
           /\ SessionOf(userId).currentQuestion = 1) =>
             /\ MapHas(sessions', userId)
             /\ SessionOf(userId)'.currentQuestion = 1]_vars

\* C34: a user gets a stored session by a selectTicket only, and has none
\* after a reset: a processAnswer that resumes after the reset stores nothing
C34_ResetIsNotUndone ==
    [][\A userId \in BotUsers :
          /\ (last'.op = "reset" /\ last'.userId = userId) => ~ MapHas(sessions', userId)
          /\ (~ MapHas(sessions, userId) /\ MapHas(sessions', userId)) =>
                (last'.op = "selectTicket" /\ last'.userId = userId)]_vars

\* a processAnswer has resumed and found no entry, at time 0 (so nothing has
\* expired), while the other processAnswer of the user is still suspended
\* with an object the store no longer holds: the entry was removed by a reset
\* after both had started, and the user still has none
C34_Witness ==
    /\ now = 0
    /\ last.op = "answerReplied"
    /\ last.ret = 0
    /\ last.age = -1
    /\ ~ MapHas(sessions, last.userId)
    /\ \E k \in Handlers :
          /\ handlers[k].pc = "answerCallbackQuery"
          /\ handlers[k].userId = last.userId

\* C35: when no handler is in flight, also after a transport call has failed,
\* every stored session has correctAnswers + incorrectAnswers =
\* currentQuestion - 1 and currentQuestion <= N
C35_FailedTransportLeavesValidSession ==
    AllIdle =>
       \A session \in Stored :
          /\ Answered(session) = session.currentQuestion - 1
          /\ session.currentQuestion <= getTicketQuestionCount(session.currentTicket)

\* C38: set's eviction loop ends for every capacity: whenever its test holds,
\* the iteration removes an entry (so the loop runs at most size times)
C38_EvictionLoopMakesProgress ==
    (lruCall.pc = "evict" /\ LruFull(lruCache)) =>
       Len(LRUCache_evict(lruCache).cache) < Len(lruCache.cache)

\* C39: ImageCache.set's eviction loop ends for every key and content:
\* whenever its test holds, the iteration removes exactly one entry and
\* lowers currentSize by the size of that entry
C39_EvictOldestRemovesOneEntry ==
    (imageCall.pc = "evict" /\ NeedsEviction(imageCache, imageCall.buffer.length)) =>
       LET after == ImageCache_evictOldest(imageCache)
       IN  /\ Len(after.cache) = Len(imageCache.cache) - 1
           /\ \E i \in 1 .. Len(imageCache.cache) :
                 /\ after.cache = CacheRemove(imageCache.cache, i)
                 /\ after.currentSize = imageCache.currentSize - imageCache.cache[i].size

\* C31: a run of consecutive checks that find critical heap usage does not end
\* before the critical handler has been called in it, whatever statuses and
\* alerts came before
C31_CriticalEpisodeIsHandled ==
    lastMemory.episode = "ended" => lastMemory.handled

\* the replacements forked in a line within the window that starts at w
ForksInWindow(forks, w) ==
    Cardinality({i \in 1 .. Len(forks) : w <= forks[i] /\ forks[i] < w + RESTART_WINDOW_MS})

\* C40: a line of workers is re-forked at most MAX_RESTARTS times within any
\* window of RESTART_WINDOW_MS, a worker that dies with that many replacements
\* behind it in the window is not replaced, and the live workers never exceed
\* WORKER_COUNT
C40_RestartsAreBounded ==
    /\ \A slot \in Slots, w \in 0 .. ClusterMaxTime :
          ForksInWindow(lineages[slot].forks, w) <= MAX_RESTARTS
    /\ (lastCluster.op = "exit" /\ lastCluster.recent >= MAX_RESTARTS) => ~ lastCluster.forked
    /\ Cardinality(cluster.workers) <= WORKER_COUNT

\* a worker died with MAX_RESTARTS replacements of its line in the window and
\* was not replaced, while the other line, re-forked under a reused process
\* id, is still alive
C40_Witness ==
    /\ lastCluster.op = "exit"
    /\ lastCluster.recent >= MAX_RESTARTS
    /\ ~ lastCluster.forked
    /\ Cardinality(cluster.workers) = WORKER_COUNT - 1
    /\ \E slot \in Slots : lineages[slot].pid # 0 /\ Len(lineages[slot].forks) > 0
    /\ \E slot \in Slots : lineages[slot].pid = 0 /\ Len(lineages[slot].forks) > MAX_RESTARTS

=============================================================================
